---- MODULE Spec2Model ----
(***************************************************************************)
(* Model of the merkle-subscription repository:                            *)
(*   backend/src/merkle/tree.rs        tree build, proof, off-chain verify *)
(*   backend/src/merkle/updatestate.rs the merkle_state audit table        *)
(*   backend/src/merkle/solana_client.rs, backend/src/main.rs  workflow    *)
(*   merkle-program/.../instructions   the on-ledger program               *)
(*                                                                         *)
(* SHA-256 is modelled as a collision-free hash: a digest is the sequence  *)
(* of tokens that names its preimage (a prefix code, hence injective).     *)
(***************************************************************************)
EXTENDS Integers, Sequences, FiniteSets, TLC

VARIABLES
    subscriber_storage,  \* table subscriber_storage: rows <<wallet_address, expiration_ts>>
    merkle_state,        \* table merkle_state: the audit log, in insertion order
    config,              \* the on-ledger SubscriptionConfig account (PDA "config")
    clock,               \* the trusted clock (Clock::get().unix_timestamp)
    pc,                  \* position of each run of main
    root_hash,           \* main: root_hash (hex string) of each run
    tree,                \* main: tree (its leaves) of each run
    subscriber_data,     \* main: subscriber_data of each run
    publish_res,         \* main: result of update_merkle_root of each run
    is_valid,            \* main: is_valid of step 5
    is_valid_tamper,     \* main: is_valid_tamper of step 6
    superseded,          \* history: the root overwritten by the last successful update_root
    call                 \* the last operation performed, with its arguments and its result

vars == <<subscriber_storage, merkle_state, config, clock, pc, root_hash, tree,
          subscriber_data, publish_res, is_valid, is_valid_tamper, superseded, call>>

-----------------------------------------------------------------------------
(* Bounds *)

MaxRows == 3        \* rows handed to the functions of tree.rs
MaxDbRows == 2      \* rows of subscriber_storage when main runs
NumWallets == 3     \* distinct well-formed wallet addresses
MaxClock == 2       \* the clock runs 1..MaxClock
MaxLog == 2         \* rows of merkle_state in the persistence-layer specification
NumRuns == 1        \* runs of main

-----------------------------------------------------------------------------
(* Values *)

BadWallet == 0                      \* a string that does not decode to 32 bytes
Wallets == 0..NumWallets            \* wallet_address strings, ordered as String::cmp orders them
Exps == {1, 2}                      \* expiration_ts values in the store
FakeExpiration == 99                \* main.rs:129, 9999999999i64 scaled to the model: beyond every clock value and stored expiration
Rows == Wallets \X Exps

None == <<>>                        \* Option::None / no value
DecodeErr == <<-1>>                 \* failure of hex::decode
BadKey == -1                        \* failure of bs58::decode or of the 32-byte length check
KeyBase == 100
Backend == 200                      \* pubkey of the backend's authority_keypair
Mallory == 201                      \* pubkey of some other signer

LeafTag == 1
NodeTag == 2
HexTag == 16
ZeroRoot == <<0>>                   \* [0u8; 32]
JunkHash == <<7>>                   \* a 32-byte value that is no digest of the model

\* bs58::decode(pk_str).into_vec() followed by the length check
Bs58Decode(pk_str) == IF pk_str = BadWallet THEN BadKey ELSE KeyBase + pk_str

LeafHash_NoExpiration(pubkey_bytes, exp) == <<LeafTag, pubkey_bytes, 0>>

\* Sha256Hasher::hash of the 40-byte payload pubkey_bytes ++ exp.to_le_bytes()
LeafHash(pubkey_bytes, exp) == <<LeafTag, pubkey_bytes, exp>>

\* rs_merkle Hasher::concat_and_hash(left, Some(right)): hash(left ++ right)
ConcatAndHash(left, right) == <<NodeTag>> \o left \o right

\* hex::encode / hex::decode (a hex string is a different type from the bytes)
HexEncode(bytes) == <<HexTag>> \o bytes
HexDecode(s) == IF Len(s) > 0 /\ Head(s) = HexTag THEN Tail(s) ELSE DecodeErr

-----------------------------------------------------------------------------
(* rs_merkle, as called from tree.rs and verify.rs *)

\* one level of MerkleTree::from_leaves: pairs are hashed, an odd last node is promoted
NextLayer(layer) ==
    [i \in 1..((Len(layer) + 1) \div 2) |->
        IF 2 * i <= Len(layer) THEN ConcatAndHash(layer[2 * i - 1], layer[2 * i])
                               ELSE layer[2 * i - 1]]

RECURSIVE MerkleRoot(_)
\* MerkleTree::from_leaves(leaves).root()
MerkleRoot(leaves) ==
    IF Len(leaves) = 0 THEN None
    ELSE IF Len(leaves) = 1 THEN leaves[1]
    ELSE MerkleRoot(NextLayer(leaves))

RECURSIVE TreeProof(_, _)
\* tree.proof(&[index]): the sibling of the path node at each level, leaf-ward first;
\* a level where the path node has no sibling contributes nothing
TreeProof(layer, index) ==
    IF Len(layer) <= 1 THEN <<>>
    ELSE LET sib == IF index % 2 = 0 THEN index + 1 ELSE index - 1
             here == IF sib < Len(layer) THEN <<layer[sib + 1]>> ELSE <<>>
         IN here \o TreeProof(NextLayer(layer), index \div 2)

\* MerkleProof::to_bytes: the hashes concatenated; rest counts trailing bytes that
\* fill no 32-byte chunk
ProofToBytes(hashes) == [chunks |-> hashes, rest |-> 0]

\* MerkleProof::try_from(&[u8]) fails unless the length is a multiple of 32
ProofParses(bytes) == bytes.rest = 0
ProofTryFrom(bytes) == bytes.chunks

RECURSIVE TreeDepth(_)
\* utils::indices::tree_depth: ceil(log2(n)), and 1 for a single leaf
TreeDepth(n) == IF n = 0 THEN 0 ELSE IF n <= 2 THEN 1 ELSE 1 + TreeDepth((n + 1) \div 2)

RootErr == <<-2>>

RECURSIVE ProofFold(_, _, _, _, _)
\* MerkleProof::root for one leaf: level by level, the path node is combined with
\* the next proof hash by POSITION (the lower index is the left operand); the last
\* node of an odd level is promoted without consuming a hash
ProofFold(hashes, cur, index, count, depth) ==
    IF depth = 0 THEN cur
    ELSE IF count % 2 = 1 /\ index = count - 1
         THEN ProofFold(hashes, cur, index \div 2, (count + 1) \div 2, depth - 1)
    ELSE IF Len(hashes) = 0 THEN RootErr
    ELSE LET parent == IF index % 2 = 0 THEN ConcatAndHash(cur, Head(hashes))
                                        ELSE ConcatAndHash(Head(hashes), cur)
         IN ProofFold(Tail(hashes), parent, index \div 2, (count + 1) \div 2, depth - 1)

ProofVerify_SortedPair(hashes, root, index, leaf, total) ==
    LET RECURSIVE Less(_, _)
        Less(a, b) == IF a = <<>> THEN b # <<>>
                      ELSE IF b = <<>> THEN FALSE
                      ELSE IF Head(a) # Head(b) THEN Head(a) < Head(b)
                      ELSE Less(Tail(a), Tail(b))
        RECURSIVE Fold(_, _)
        Fold(hs, cur) == IF hs = <<>> THEN cur
                         ELSE IF Less(Head(hs), cur)
                              THEN Fold(Tail(hs), ConcatAndHash(Head(hs), cur))
                              ELSE Fold(Tail(hs), ConcatAndHash(cur, Head(hs)))
    IN Fold(hashes, leaf) = root

\* proof.verify(root, &[index], &[leaf], total)
ProofVerify(hashes, root, index, leaf, total) ==
    LET r == IF total = 0 THEN RootErr
             ELSE ProofFold(hashes, leaf, index, total, TreeDepth(total))
    IN r # RootErr /\ r = root

-----------------------------------------------------------------------------
(* backend/src/merkle/tree.rs *)

RECURSIVE SortInsert(_, _)
SortInsert(x, sorted) ==
    IF sorted = <<>> THEN <<x>>
    ELSE IF Head(sorted)[1] <= x[1] THEN <<Head(sorted)>> \o SortInsert(x, Tail(sorted))
    ELSE <<x>> \o sorted

RECURSIVE SortByWallet(_)
\* subscribers.sort_by(|a, b| a.0.cmp(&b.0)): a stable sort on the wallet address only
SortByWallet(rows) ==
    IF rows = <<>> THEN <<>>
    ELSE SortInsert(rows[Len(rows)], SortByWallet(SubSeq(rows, 1, Len(rows) - 1)))

Leaves(subscribers) ==
    [i \in 1..Len(subscribers) |-> LeafHash(Bs58Decode(subscribers[i][1]), subscribers[i][2])]

BuildErr == [status |-> "err", root |-> None, tree |-> <<>>, subscribers |-> <<>>]
BuildPanic == [status |-> "panic", root |-> None, tree |-> <<>>, subscribers |-> <<>>]

BuildTree_ZeroRoot(rows) ==
    IF rows = <<>>
    THEN [status |-> "ok", root |-> HexEncode(ZeroRoot), tree |-> <<>>, subscribers |-> <<>>]
    ELSE IF \E i \in 1..Len(rows) : Bs58Decode(rows[i][1]) = BadKey THEN BuildPanic
    ELSE LET subscribers == SortByWallet(rows)
             leaves == Leaves(subscribers)
         IN [status |-> "ok", root |-> HexEncode(MerkleRoot(leaves)),
             tree |-> leaves, subscribers |-> subscribers]

\* build_tree_from_db on the fetched rows
BuildTree(rows) ==
    IF rows = <<>> THEN BuildErr
    ELSE IF \E i \in 1..Len(rows) : Bs58Decode(rows[i][1]) = BadKey THEN BuildPanic
    ELSE LET subscribers == SortByWallet(rows)
             leaves == Leaves(subscribers)
         IN [status |-> "ok", root |-> HexEncode(MerkleRoot(leaves)),
             tree |-> leaves, subscribers |-> subscribers]

Position_OneBased(subscribers, user_pubkey) ==
    IF \E i \in 1..Len(subscribers) : subscribers[i][1] = user_pubkey
    THEN CHOOSE i \in 1..Len(subscribers) :
             /\ subscribers[i][1] = user_pubkey
             /\ \A j \in 1..(i - 1) : subscribers[j][1] # user_pubkey
    ELSE -1

\* subscribers.iter().position(|(pk, _)| pk == user_pubkey), zero-based
Position(subscribers, user_pubkey) ==
    IF \E i \in 1..Len(subscribers) : subscribers[i][1] = user_pubkey
    THEN (CHOOSE i \in 1..Len(subscribers) :
             /\ subscribers[i][1] = user_pubkey
             /\ \A j \in 1..(i - 1) : subscribers[j][1] # user_pubkey) - 1
    ELSE -1

GetProofForUser_Padded(leaves, subscribers, user_pubkey) ==
    LET RECURSIVE Padded(_, _)
        Padded(layer, i) ==
            IF Len(layer) <= 1 THEN <<>>
            ELSE LET sib == IF i % 2 = 0 THEN i + 1 ELSE i - 1
                     here == IF sib < Len(layer) THEN layer[sib + 1] ELSE layer[i + 1]
                 IN <<here>> \o Padded(NextLayer(layer), i \div 2)
        index == Position(subscribers, user_pubkey)
    IN IF index < 0 THEN None
       ELSE <<ProofToBytes(Padded(leaves, index)), index>>

\* get_proof_for_user
GetProofForUser(leaves, subscribers, user_pubkey) ==
    LET index == Position(subscribers, user_pubkey)
    IN IF index < 0 THEN None
       ELSE <<ProofToBytes(TreeProof(leaves, index)), index>>

\* verify_subscription of tree.rs: Err(..) is "err", Ok(true) "true", Ok(false) "false"
VerifyOffChain(root_hex, proof_bytes, user_pubkey, expiration_ts, index, total) ==
    IF HexDecode(root_hex) = DecodeErr THEN "err"
    ELSE IF ~ProofParses(proof_bytes) THEN "err"
    ELSE IF Bs58Decode(user_pubkey) = BadKey THEN "err"
    ELSE IF ProofVerify(ProofTryFrom(proof_bytes), HexDecode(root_hex), index,
                        LeafHash(Bs58Decode(user_pubkey), expiration_ts), total)
         THEN "true" ELSE "false"

-----------------------------------------------------------------------------
(* Specification SpecTree: the functions of tree.rs, each applied once to every
   bounded input (they keep no state between calls) *)

RECURSIVE SeqsUpTo(_, _)
SeqsUpTo(S, n) ==
    IF n = 0 THEN {<<>>}
    ELSE LET shorter == SeqsUpTo(S, n - 1)
         IN shorter \cup {Append(s, x) : s \in {t \in shorter : Len(t) = n - 1}, x \in S}

Reorderings(s) ==
    {[i \in 1..Len(s) |-> s[f[i]]] :
        f \in {g \in [1..Len(s) -> 1..Len(s)] : \A i, j \in 1..Len(s) : g[i] = g[j] => i = j}}

Runs == 1..NumRuns
NoCall == [op |-> "none"]
NoRes == [status |-> "none", sig |-> None, landed |-> FALSE]
NoConfig == [exists |-> FALSE, authority |-> 0, merkle_root |-> None, bump |-> 0]

\* no run of main has computed anything yet
RunsAt(at) ==
    /\ pc = [r \in Runs |-> at]
    /\ root_hash = [r \in Runs |-> None]
    /\ tree = [r \in Runs |-> <<>>]
    /\ subscriber_data = [r \in Runs |-> <<>>]
    /\ publish_res = [r \in Runs |-> NoRes]
    /\ is_valid = [r \in Runs |-> "none"]
    /\ is_valid_tamper = [r \in Runs |-> "none"]

TreeInit ==
    /\ subscriber_storage \in SeqsUpTo(Rows, MaxRows)
    /\ merkle_state = <<>>
    /\ config = NoConfig
    /\ clock = 1
    /\ RunsAt("idle")
    /\ superseded = None
    /\ call = NoCall

TreeFrame == UNCHANGED <<subscriber_storage, merkle_state, config, clock, pc, root_hash, tree,
                         subscriber_data, publish_res, is_valid, is_valid_tamper, superseded>>

\* build_tree_from_db over the rows as the store returns them, and over the
\* same rows returned in another order
T_Build ==
    /\ call.op = "none"
    /\ \E other \in Reorderings(subscriber_storage) :
          call' = [op |-> "build", rows |-> subscriber_storage, other |-> other,
                   out |-> BuildTree(subscriber_storage), out_other |-> BuildTree(other)]
    /\ TreeFrame

\* get_proof_for_user on a built tree
T_Proof ==
    /\ call.op = "none"
    /\ \E b \in {BuildTree(subscriber_storage)}, user_pubkey \in Wallets :
          /\ b.status = "ok"
          /\ call' = [op |-> "proof", subscribers |-> b.subscribers, tree |-> b.tree,
                      user |-> user_pubkey,
                      out |-> GetProofForUser(b.tree, b.subscribers, user_pubkey)]
    /\ TreeFrame

\* root values a caller may hold: the root of the build, or another 32-byte value
RootsFor(b) == {b.root, HexEncode(ZeroRoot), HexEncode(JunkHash), HexEncode(b.tree[1])}

\* main.rs steps 5 and 6 for any record of the build: proof, then verification with
\* the record's fields or with another expiration, against the root of the build or
\* against another root
T_Verify ==
    /\ call.op = "none"
    /\ \E b \in {BuildTree(subscriber_storage)} :
          /\ b.status = "ok"
          /\ \E k \in 1..Len(b.subscribers), expiration \in Exps \cup {FakeExpiration},
                root \in RootsFor(b) :
                \E p \in {GetProofForUser(b.tree, b.subscribers, b.subscribers[k][1])} :
                    call' = [op |-> "verify", subscribers |-> b.subscribers, k |-> k,
                             proof |-> p, expiration |-> expiration,
                             root |-> root, build_root |-> b.root,
                             out |-> IF p = None THEN "none"
                                     ELSE VerifyOffChain(root, p[1], b.subscribers[k][1],
                                                         expiration, p[2], Len(b.subscribers))]
    /\ TreeFrame

\* verify_subscription for the record at position k - 1 with the proof of that leaf
\* (tree.proof(&[index]) of tree.rs line 72) and any expiration
T_VerifyAt ==
    /\ call.op = "none"
    /\ \E b \in {BuildTree(subscriber_storage)} :
          /\ b.status = "ok"
          /\ \E k \in 1..Len(b.subscribers), expiration \in Exps \cup {FakeExpiration} :
                \E p \in {ProofToBytes(TreeProof(b.tree, k - 1))} :
                    call' = [op |-> "verify_at", subscribers |-> b.subscribers, k |-> k,
                             proof |-> p, expiration |-> expiration,
                             out |-> VerifyOffChain(b.root, p, b.subscribers[k][1],
                                                    expiration, k - 1, Len(b.subscribers))]
    /\ TreeFrame

TreeNext == T_Build \/ T_Proof \/ T_Verify \/ T_VerifyAt

SpecTree == TreeInit /\ [][TreeNext]_vars

-----------------------------------------------------------------------------
(* backend/src/merkle/updatestate.rs and specification SpecStore: the two
   operations of the persistence layer on merkle_state, with any arguments *)

Sigs == {<<1>>, <<2>>}              \* transaction signatures, as strings
StoreRoots == {HexEncode(ZeroRoot), HexEncode(JunkHash)}

NewRow_AlwaysSynced(root_hex, tx_signature, now) ==
    [root_hash |-> root_hex, is_synced_on_chain |-> TRUE,
     tx_signature |-> tx_signature, created_at |-> now]

\* the row inserted by update_merkle_state
NewRow(root_hex, tx_signature, now) ==
    [root_hash |-> root_hex, is_synced_on_chain |-> (tx_signature # None),
     tx_signature |-> tx_signature, created_at |-> now]

InsertState_OnlySynced(log, root_hex, tx_signature, now) ==
    IF tx_signature = None THEN log ELSE Append(log, NewRow(root_hex, tx_signature, now))

\* INSERT INTO merkle_state ... of update_merkle_state
InsertState(log, root_hex, tx_signature, now) == Append(log, NewRow(root_hex, tx_signature, now))

\* UPDATE merkle_state SET is_synced_on_chain = TRUE, tx_signature = $1 WHERE root_hash = $2
UpdateState(log, root_hex, tx_signature) ==
    [i \in 1..Len(log) |->
        IF log[i].root_hash = root_hex
        THEN [log[i] EXCEPT !.is_synced_on_chain = TRUE, !.tx_signature = tx_signature]
        ELSE log[i]]

StoreInit ==
    /\ subscriber_storage = <<>>
    /\ merkle_state = <<>>
    /\ config = NoConfig
    /\ clock = 1
    /\ RunsAt("idle")
    /\ superseded = None
    /\ call = NoCall

StoreFrame == UNCHANGED <<subscriber_storage, config, pc, root_hash, tree, subscriber_data,
                          publish_res, is_valid, is_valid_tamper, superseded>>

\* update_merkle_state(pool, root_hex, tx_signature); the query may fail
update_merkle_state ==
    /\ Len(merkle_state) < MaxLog
    /\ \E root_hex \in StoreRoots, tx_signature \in Sigs \cup {None}, db_ok \in BOOLEAN :
          /\ merkle_state' = IF db_ok THEN InsertState(merkle_state, root_hex, tx_signature, clock)
                                      ELSE merkle_state
          /\ call' = [op |-> "update_merkle_state", root_hex |-> root_hex,
                      tx_signature |-> tx_signature, ok |-> db_ok]
    /\ UNCHANGED clock
    /\ StoreFrame

\* sync_merkle_state_on_chain(pool, root_hash, tx_signature); the query may fail
sync_merkle_state_on_chain ==
    /\ \E root_hex \in StoreRoots, tx_signature \in Sigs, db_ok \in BOOLEAN :
          /\ merkle_state' = IF db_ok THEN UpdateState(merkle_state, root_hex, tx_signature)
                                      ELSE merkle_state
          /\ call' = [op |-> "sync_merkle_state_on_chain", root_hex |-> root_hex,
                      tx_signature |-> tx_signature, ok |-> db_ok]
    /\ UNCHANGED clock
    /\ StoreFrame

\* Utc::now() advances
StoreTick ==
    /\ clock < MaxClock
    /\ clock' = clock + 1
    /\ UNCHANGED <<merkle_state, call>>
    /\ StoreFrame

StoreNext == update_merkle_state \/ sync_merkle_state_on_chain \/ StoreTick

SpecStore == StoreInit /\ [][StoreNext]_vars

\* C5: the audit log is append-only. Every operation of the persistence layer on
\* merkle_state either appends one row or leaves the log unchanged; no field of a
\* row already written ever changes.
C5_AppendOnly ==
    [][\/ merkle_state' = merkle_state
       \/ /\ Len(merkle_state') = Len(merkle_state) + 1
          /\ SubSeq(merkle_state', 1, Len(merkle_state)) = merkle_state]_vars

-----------------------------------------------------------------------------
(* Claims on the functions of tree.rs, checked under SpecTree *)

WalletsOf(rows) == {rows[i][1] : i \in 1..Len(rows)}

\* C8: build determinism. For any two sequences that are permutations of each
\* other, build_tree_from_db yields the same root and the same ordered records.
C8_BuildDeterministic ==
    call.op = "build" =>
        /\ call.out.status = call.out_other.status
        /\ call.out.root = call.out_other.root
        /\ call.out.subscribers = call.out_other.subscribers

\* C9: duplicate identities are collapsed. The number of leaves of the built tree
\* and the length of the ordered record sequence equal the number of distinct
\* identities of the input.
C9_DuplicatesCollapsed ==
    (call.op = "build" /\ call.out.status = "ok") =>
        /\ Len(call.out.tree) = Cardinality(WalletsOf(call.rows))
        /\ Len(call.out.subscribers) = Cardinality(WalletsOf(call.rows))

\* C10: round trip. For every record r of the ordered records of a build,
\* get_proof_for_user(r.identity) returns a proof and a position, and
\* verify_subscription with r's own fields, that position and the total count
\* returns true.
C10_RoundTrip ==
    (call.op = "verify" /\ call.root = call.build_root
        /\ call.expiration = call.subscribers[call.k][2]) =>
        /\ call.proof # None
        /\ call.out = "true"

\* C11: tamper rejection. For every built tree and every record r of it with the
\* proof and the position of its leaf, verify_subscription with r's identity and
\* any expiration other than r's returns Ok(false): never true, never an error.
\* The same holds of the proof and position that get_proof_for_user returns, for
\* the record at that position.
C11_TamperRejected ==
    /\ (call.op = "verify_at" /\ call.expiration # call.subscribers[call.k][2]) =>
            call.out = "false"
    /\ (call.op = "verify" /\ call.root = call.build_root /\ call.proof # None
            /\ call.expiration # call.subscribers[call.proof[2] + 1][2]) =>
            call.out = "false"

\* a three-leaf tree, the promoted last record, an expiration of another record
C11_Witness ==
    /\ call.op = "verify_at"
    /\ Len(call.subscribers) = 3
    /\ call.k = 3
    /\ call.expiration # call.subscribers[3][2]
    /\ call.expiration \in Exps
    /\ call.out = "false"

\* C18 as stated: for a build over three records ordered [A, B, C],
\* get_proof_for_user for C returns position 2 and a proof of exactly 2 sibling
\* hashes; verification of that proof succeeds against the root of the build and
\* fails against every other root.
C18_ThreeRecordsTwoHashes ==
    /\ (call.op = "proof" /\ Len(call.subscribers) = 3
            /\ Cardinality(WalletsOf(call.subscribers)) = 3
            /\ call.user = call.subscribers[3][1]) =>
          /\ call.out # None
          /\ call.out[2] = 2
          /\ Len(call.out[1].chunks) = 2
    /\ (call.op = "verify" /\ Len(call.subscribers) = 3
            /\ Cardinality(WalletsOf(call.subscribers)) = 3
            /\ call.k = 3 /\ call.expiration = call.subscribers[3][2]) =>
          (call.out = IF call.root = call.build_root THEN "true" ELSE "false")

\* C18 amended: for a build over three records ordered [A, B, C],
\* get_proof_for_user for C returns position 2 and a proof of exactly 1 sibling
\* hash, the hash of the leaves of A and B (C has no sibling at the leaf level
\* and is promoted); verification of that proof succeeds against the root of the
\* build and fails against every other root.
C18_ThreeRecordsOneHash ==
    /\ (call.op = "proof" /\ Len(call.subscribers) = 3
            /\ Cardinality(WalletsOf(call.subscribers)) = 3
            /\ call.user = call.subscribers[3][1]) =>
          /\ call.out # None
          /\ call.out[2] = 2
          /\ call.out[1].chunks = <<ConcatAndHash(call.tree[1], call.tree[2])>>
    /\ (call.op = "verify" /\ Len(call.subscribers) = 3
            /\ Cardinality(WalletsOf(call.subscribers)) = 3
            /\ call.k = 3 /\ call.expiration = call.subscribers[3][2]) =>
          (call.out = IF call.root = call.build_root THEN "true" ELSE "false")

\* the proof of C has been verified against a root other than the build's
C18_Witness ==
    /\ call.op = "verify"
    /\ Len(call.subscribers) = 3
    /\ Cardinality(WalletsOf(call.subscribers)) = 3
    /\ call.k = 3
    /\ call.expiration = call.subscribers[3][2]
    /\ call.proof[2] = 2
    /\ Len(call.proof[1].chunks) = 1
    /\ call.root # call.build_root
    /\ call.out = "false"

\* C19: get_proof_for_user returns a result iff the target identity occurs in the
\* ordered records (otherwise None: never a proof, never an error); the returned
\* position i is an index of the ordered records whose identity is the target, and
\* leaf i of the tree is the leaf encoding of that record.
C19_ProofIffPresent ==
    call.op = "proof" =>
        /\ call.out # None <=> call.user \in WalletsOf(call.subscribers)
        /\ call.out # None =>
              /\ call.out[2] \in 0..(Len(call.subscribers) - 1)
              /\ call.subscribers[call.out[2] + 1][1] = call.user
              /\ call.tree[call.out[2] + 1] =
                    LeafHash(Bs58Decode(call.subscribers[call.out[2] + 1][1]),
                             call.subscribers[call.out[2] + 1][2])
              /\ ProofParses(call.out[1])

\* a proof for the second of three records
C19_Witness ==
    /\ call.op = "proof"
    /\ Len(call.subscribers) = 3
    /\ call.user = call.subscribers[2][1]
    /\ call.user # call.subscribers[1][1]
    /\ call.out # None
    /\ call.out[2] = 1

-----------------------------------------------------------------------------
(* merkle-program: the on-ledger program, and specification SpecChain: any
   signer sends any instruction, a client verifies off-chain against the root
   it read from the config account *)

Bump == 255                         \* ctx.bumps.config, the canonical bump of the PDA
Signers == {Backend, Mallory}

\* instructions::initialize behind #[account(init, ...)]: the account must not exist
InitializeResult(cfg) == IF cfg.exists THEN "AlreadyInUse" ELSE "Ok"
InitializeConfig_Reinit(cfg, authority, initial_root) ==
    [exists |-> TRUE, authority |-> authority, merkle_root |-> initial_root, bump |-> Bump]
InitializeConfig(cfg, authority, initial_root) ==
    IF cfg.exists THEN cfg
    ELSE [exists |-> TRUE, authority |-> authority, merkle_root |-> initial_root, bump |-> Bump]

\* instructions::update_root behind #[account(mut, has_one = authority @ Unauthorized)]
UpdateRootResult_NoHasOne(cfg, authority) ==
    IF ~cfg.exists THEN "AccountNotInitialized" ELSE "Ok"
UpdateRootResult(cfg, authority) ==
    IF ~cfg.exists THEN "AccountNotInitialized"
    ELSE IF cfg.authority # authority THEN "Unauthorized"
    ELSE "Ok"
UpdateRootConfig_KeepsRoot(cfg, authority, new_root) == cfg
UpdateRootConfig(cfg, authority, new_root) ==
    IF UpdateRootResult(cfg, authority) = "Ok" THEN [cfg EXCEPT !.merkle_root = new_root]
    ELSE cfg

VerifyOnChain_NoRequire(cfg, now, user_key, proof_bytes, expiration, leaf_index, total_leaves) ==
    IF ~cfg.exists THEN "AccountNotInitialized"
    ELSE IF ~(expiration > now) THEN "SubscriptionExpired"
    ELSE IF ~ProofParses(proof_bytes) THEN "InvalidProof"
    ELSE "Ok"

VerifyOnChain_UnboundKey(cfg, now, user_key, proof_bytes, expiration, leaf_index, total_leaves) ==
    IF ~cfg.exists THEN "AccountNotInitialized"
    ELSE IF ~(expiration > now) THEN "SubscriptionExpired"
    ELSE IF ~ProofParses(proof_bytes) THEN "InvalidProof"
    ELSE IF ~\E w \in Wallets \ {BadWallet} :
                ProofVerify(ProofTryFrom(proof_bytes), cfg.merkle_root, leaf_index,
                            LeafHash(Bs58Decode(w), expiration), total_leaves)
         THEN "InvalidProof"
    ELSE "Ok"

\* instructions::verify_subscription
VerifyOnChain(cfg, now, user_key, proof_bytes, expiration, leaf_index, total_leaves) ==
    IF ~cfg.exists THEN "AccountNotInitialized"
    ELSE IF ~(expiration > now) THEN "SubscriptionExpired"
    ELSE IF ~ProofParses(proof_bytes) THEN "InvalidProof"
    ELSE IF ~ProofVerify(ProofTryFrom(proof_bytes), cfg.merkle_root, leaf_index,
                         LeafHash(user_key, expiration), total_leaves)
         THEN "InvalidProof"
    ELSE "Ok"

\* the store of the on-ledger specification: every wallet once, in wallet order,
\* each with an expiration the clock passes
ChainStores == {[i \in 1..NumWallets |-> <<i, 2>>]}

\* the store before its last n rows were added
Earlier(n) == SubSeq(subscriber_storage, 1, Len(subscriber_storage) - n)
Builds == {BuildTree(Earlier(n)) : n \in {0, 1}}
ChainRoots == {ZeroRoot} \cup {HexDecode(b.root) : b \in Builds}

\* what a subscriber submits: the fields of its record and its proof from some
\* build, or those with one field replaced
Honest(b, k) ==
    LET p == GetProofForUser(b.tree, b.subscribers, b.subscribers[k][1])
    IN [user |-> b.subscribers[k][1], expiration |-> b.subscribers[k][2],
        proof |-> p[1], index |-> p[2], total |-> Len(b.subscribers)]
Tampered(h) ==
    {h} \cup {[h EXCEPT !.user = w] : w \in Wallets \ {BadWallet}}
        \cup {[h EXCEPT !.user = w, !.index = i] :
                w \in Wallets \ {BadWallet}, i \in 0..(h.total - 1)}
        \cup {[h EXCEPT !.expiration = e] : e \in Exps \cup {FakeExpiration}}
        \cup {[h EXCEPT !.index = i] : i \in {0, h.index + 1}}
        \cup {[h EXCEPT !.total = n] : n \in {0, h.total + 1}}
        \cup {[h EXCEPT !.proof = q] :
                q \in {[chunks |-> h.proof.chunks, rest |-> 1],
                       [chunks |-> <<>>, rest |-> 0],
                       [chunks |-> <<JunkHash>> \o h.proof.chunks, rest |-> 0]}}
Submissions ==
    UNION {Tampered(h) :
             h \in UNION {{Honest(b, k) : k \in 1..Len(b.subscribers)} : b \in Builds}}

ChainInit ==
    /\ subscriber_storage \in ChainStores
    /\ merkle_state = <<>>
    /\ config = NoConfig
    /\ clock = 1
    /\ RunsAt("idle")
    /\ superseded = None
    /\ call = NoCall

ChainFrame == UNCHANGED <<subscriber_storage, merkle_state, pc, root_hash, tree, subscriber_data,
                          publish_res, is_valid, is_valid_tamper>>

\* instruction initialize(initial_root), signed by authority
initialize ==
    /\ \E authority \in Signers, initial_root \in ChainRoots :
          /\ config' = InitializeConfig(config, authority, initial_root)
          /\ call' = [op |-> "initialize", signer |-> authority, root |-> initial_root,
                      before |-> config, result |-> InitializeResult(config)]
    /\ UNCHANGED <<clock, superseded>>
    /\ ChainFrame

\* instruction update_root(new_root), signed by authority
update_root ==
    /\ \E authority \in Signers, new_root \in ChainRoots :
          /\ config' = UpdateRootConfig(config, authority, new_root)
          /\ superseded' = IF UpdateRootResult(config, authority) = "Ok"
                              /\ new_root # config.merkle_root
                           THEN config.merkle_root ELSE superseded
          /\ call' = [op |-> "update_root", signer |-> authority, root |-> new_root,
                      before |-> config, result |-> UpdateRootResult(config, authority)]
    /\ UNCHANGED clock
    /\ ChainFrame

\* a verification changes neither the account nor the clock, so whatever follows
\* it is reached as well from the state it was called in: the calls of the
\* verifiers are explored from the states whose last call is not a verification
Verifications == {"verify_subscription", "verify_offchain"}

\* instruction verify_subscription(proof_bytes, expiration, leaf_index, total_leaves),
\* signed by user
verify_subscription ==
    /\ call.op \notin Verifications
    /\ \E s \in Submissions :
          call' = [op |-> "verify_subscription", sub |-> s, now |-> clock, before |-> config,
                   result |-> VerifyOnChain(config, clock, Bs58Decode(s.user), s.proof,
                                            s.expiration, s.index, s.total)]
    /\ UNCHANGED <<config, clock, superseded>>
    /\ ChainFrame

\* tree.rs verify_subscription, called by a client with the root the config account holds
verify_subscription_offchain ==
    /\ call.op \notin Verifications
    /\ config.exists
    /\ \E s \in Submissions :
          call' = [op |-> "verify_offchain", sub |-> s, now |-> clock, before |-> config,
                   result |-> VerifyOffChain(HexEncode(config.merkle_root), s.proof, s.user,
                                             s.expiration, s.index, s.total)]
    /\ UNCHANGED <<config, clock, superseded>>
    /\ ChainFrame

\* the ledger's clock advances
ChainTick ==
    /\ clock < MaxClock
    /\ clock' = clock + 1
    /\ UNCHANGED <<config, superseded, call>>
    /\ ChainFrame

ChainNext ==
    initialize \/ update_root \/ verify_subscription \/ verify_subscription_offchain \/ ChainTick

SpecChain == ChainInit /\ [][ChainNext]_vars

-----------------------------------------------------------------------------
(* Claims on the on-ledger program and the two verifiers, checked under SpecChain *)

\* the submission s reconstructs root: its proof parses and folds, from the leaf of
\* its identity and expiration at its position and count, to root
FoldsTo(s, root) ==
    /\ ProofParses(s.proof)
    /\ Bs58Decode(s.user) # BadKey
    /\ ProofVerify(ProofTryFrom(s.proof), root, s.index,
                   LeafHash(Bs58Decode(s.user), s.expiration), s.total)

\* C2: verification never accepts an expired claim. In each verifier, every input
\* whose claimed expiration is <= the trusted clock is rejected, even when it
\* reconstructs the trusted root.
C2_ExpiredNeverAccepted ==
    /\ (call.op = "verify_subscription" /\ call.sub.expiration <= call.now)
           => call.result # "Ok"
    /\ (call.op = "verify_offchain" /\ call.sub.expiration <= call.now)
           => call.result # "true"

\* C3 as stated: the on-ledger verifier succeeds only if the submission folds to
\* the current config.merkle_root, and a submission that folds to the superseded
\* root and not to the current one is rejected with InvalidProof.
C3_SupersededInvalidProof ==
    call.op = "verify_subscription" =>
        /\ call.result = "Ok" => FoldsTo(call.sub, config.merkle_root)
        /\ (superseded # None /\ FoldsTo(call.sub, superseded)
               /\ ~FoldsTo(call.sub, config.merkle_root))
             => call.result = "InvalidProof"

\* C3 amended: the on-ledger verifier succeeds only if the submission folds to the
\* current config.merkle_root; a submission that folds to the superseded root and
\* not to the current one is rejected, with InvalidProof when its expiration is
\* later than the clock and with SubscriptionExpired otherwise.
C3_SupersededRejected ==
    call.op = "verify_subscription" =>
        /\ call.result = "Ok" => FoldsTo(call.sub, config.merkle_root)
        /\ (superseded # None /\ FoldsTo(call.sub, superseded)
               /\ ~FoldsTo(call.sub, config.merkle_root))
             => call.result = IF call.sub.expiration > call.now THEN "InvalidProof"
                              ELSE "SubscriptionExpired"

C3_Witness ==
    /\ call.op = "verify_subscription"
    /\ superseded # None
    /\ FoldsTo(call.sub, superseded)
    /\ ~FoldsTo(call.sub, config.merkle_root)
    /\ call.sub.expiration > call.now
    /\ call.result = "InvalidProof"

\* C4: only the authority can change the root. Once the config exists, merkle_root
\* changes only in an update_root signed by config.authority, and an update_root
\* signed by any other key fails with Unauthorized and leaves merkle_root,
\* authority and bump unchanged.
C4_OnlyAuthorityUpdates ==
    [][config.exists =>
         /\ config'.merkle_root # config.merkle_root
              => (call'.op = "update_root" /\ call'.signer = config.authority
                    /\ call'.result = "Ok")
         /\ (call' # call /\ call'.op = "update_root" /\ call'.signer # config.authority)
              => (call'.result = "Unauthorized" /\ config' = config)]_vars

C4_Witness ==
    /\ call.op = "update_root"
    /\ call.before.exists
    /\ call.signer # call.before.authority
    /\ call.root # call.before.merkle_root
    /\ call.result = "Unauthorized"
    /\ config = call.before

\* the result of each verifier for submission s, with the root cfg holds and the
\* clock value now
OnChainResult(cfg, now, s) ==
    VerifyOnChain(cfg, now, Bs58Decode(s.user), s.proof, s.expiration, s.index, s.total)
OffChainResult(cfg, s) ==
    VerifyOffChain(HexEncode(cfg.merkle_root), s.proof, s.user, s.expiration, s.index, s.total)

\* C12: the two verifiers agree. For every submission (proof bytes, identity,
\* expiration, position, total count), with the same trusted root and the same
\* clock value, the off-chain verify_subscription accepts iff the on-ledger
\* verify_subscription accepts.
C12_VerifiersAgree ==
    /\ (call.op = "verify_subscription" /\ call.before.exists) =>
            (call.result = "Ok" <=> OffChainResult(call.before, call.sub) = "true")
    /\ call.op = "verify_offchain" =>
            (call.result = "true" <=> OnChainResult(call.before, call.now, call.sub) = "Ok")

\* C13: in each verifier, the outcome for malformed proof bytes differs from the
\* outcome for a well-formed proof that does not reconstruct the trusted root
\* (both with an expiration later than the clock): never the same result value,
\* never the same error code.
C13_MalformedDistinct ==
    \A s \in Submissions :
        (/\ call.op \in {"verify_subscription", "verify_offchain"}
         /\ call.before.exists
         /\ ~ProofParses(call.sub.proof)
         /\ call.sub.expiration > call.now
         /\ ProofParses(s.proof)
         /\ s.expiration > call.now
         /\ ~FoldsTo(s, call.before.merkle_root))
        => call.result # (IF call.op = "verify_subscription"
                          THEN OnChainResult(call.before, call.now, s)
                          ELSE OffChainResult(call.before, s))

C21_SignerBound ==
    (call.op = "verify_subscription" /\ call.result = "Ok") =>
        /\ ProofFold(ProofTryFrom(call.sub.proof),
                     LeafHash(KeyBase + call.sub.user, call.sub.expiration),
                     call.sub.index, call.sub.total, TreeDepth(call.sub.total))
              = config.merkle_root
        /\ \A b \in Builds : \A k \in 1..Len(b.subscribers) :
              (/\ Honest(b, k).proof = call.sub.proof
               /\ Honest(b, k).expiration = call.sub.expiration)
              => Honest(b, k).user = call.sub.user

\* the proof and expiration of one subscriber under the current root, submitted
\* unexpired in a transaction signed by another subscriber, are rejected
C21_Witness ==
    /\ call.op = "verify_subscription"
    /\ call.result = "InvalidProof"
    /\ call.sub.expiration > call.now
    /\ \E b \in Builds : \E k \in 1..Len(b.subscribers) :
          /\ HexDecode(b.root) = config.merkle_root
          /\ Honest(b, k).proof = call.sub.proof
          /\ Honest(b, k).expiration = call.sub.expiration
          /\ Honest(b, k).total = call.sub.total
          /\ Honest(b, k).user # call.sub.user
          /\ call.sub.user \in WalletsOf(b.subscribers)
          /\ call.sub.index = Position(b.subscribers, call.sub.user)

\* C22: the config account is initialized at most once and its authority is
\* fixed. Once it exists, every initialize fails and leaves config unchanged; no
\* initialize, update_root or verify_subscription changes config.authority or
\* config.bump or removes the account; verify_subscription leaves the whole
\* config unchanged.
C22_InitializedOnce ==
    [][/\ config.exists =>
             /\ config'.exists
             /\ config'.authority = config.authority
             /\ config'.bump = config.bump
       /\ (config.exists /\ call' # call /\ call'.op = "initialize") =>
             (call'.result # "Ok" /\ config' = config)
       /\ (call' # call /\ call'.op \in {"verify_subscription", "verify_offchain"}) =>
             config' = config]_vars

\* another key has tried to initialize the existing account with another root
C22_Witness ==
    /\ call.op = "initialize"
    /\ call.before.exists
    /\ call.signer # call.before.authority
    /\ call.root # call.before.merkle_root
    /\ call.result = "AlreadyInUse"
    /\ config = call.before

-----------------------------------------------------------------------------
(* backend/src/main.rs with solana_client.rs, and specification Spec: runs of
   main against the store and the ledger. A transaction may fail to reach the
   ledger, or be processed there and its confirmation be lost; a query of the
   store may fail. *)

\* the config account main may find: none, one this backend is the authority of,
\* one whose authority is another key
InitialConfigs ==
    {NoConfig} \cup {[exists |-> TRUE, authority |-> a, merkle_root |-> JunkHash, bump |-> Bump] :
                        a \in Signers}

\* the rows main may find in the store: an undecodable address, and two
\* subscribers with either expiration
DbRows == {<<BadWallet, 1>>} \cup ({1, 2} \X Exps)

Init ==
    /\ subscriber_storage \in SeqsUpTo(DbRows, MaxDbRows)
    /\ merkle_state = <<>>
    /\ config \in InitialConfigs
    /\ clock = 1
    /\ RunsAt("check_config")
    /\ superseded = None
    /\ call = NoCall

\* main.rs 41: solana_client.get_current_root() succeeds only on an existing account,
\* and then only if the RPC call goes through
MainCheckConfig(r) ==
    /\ pc[r] = "check_config"
    /\ \E rpc_ok \in BOOLEAN :
          pc' = [pc EXCEPT ![r] = IF config.exists /\ rpc_ok THEN "build" ELSE "initialize"]
    /\ UNCHANGED <<subscriber_storage, merkle_state, config, clock, root_hash, tree,
                   subscriber_data, publish_res, is_valid, is_valid_tamper, superseded, call>>

\* main.rs 48-57: initialize_config([0u8; 32]); its failure is returned from main
MainInitialize(r) ==
    /\ pc[r] = "initialize"
    /\ \E landed \in BOOLEAN, confirmed \in BOOLEAN :
          /\ config' = IF landed THEN InitializeConfig(config, Backend, ZeroRoot) ELSE config
          /\ pc' = [pc EXCEPT ![r] =
                      IF landed /\ confirmed /\ InitializeResult(config) = "Ok"
                      THEN "build" ELSE "err_initialize"]
    /\ UNCHANGED <<subscriber_storage, merkle_state, clock, root_hash, tree,
                   subscriber_data, publish_res, is_valid, is_valid_tamper, superseded, call>>

\* main.rs 62-71: build_tree_from_db(&pool) and the decoding of its root
MainBuild(r) ==
    /\ pc[r] = "build"
    /\ \E db_ok \in BOOLEAN :
          LET b == BuildTree(subscriber_storage)
          IN IF db_ok /\ b.status = "ok" /\ HexDecode(b.root) # DecodeErr
             THEN /\ root_hash' = [root_hash EXCEPT ![r] = b.root]
                  /\ tree' = [tree EXCEPT ![r] = b.tree]
                  /\ subscriber_data' = [subscriber_data EXCEPT ![r] = b.subscribers]
                  /\ pc' = [pc EXCEPT ![r] = "publish"]
             ELSE /\ pc' = [pc EXCEPT ![r] = IF db_ok /\ b.status = "panic"
                                             THEN "panic_build" ELSE "err_build"]
                  /\ UNCHANGED <<root_hash, tree, subscriber_data>>
    /\ UNCHANGED <<subscriber_storage, merkle_state, config, clock, publish_res,
                   is_valid, is_valid_tamper, superseded, call>>

\* main.rs 75: update_merkle_root(root_bytes), through send_transaction
MainPublish(r) ==
    /\ pc[r] = "publish"
    /\ \E landed \in BOOLEAN, confirmed \in BOOLEAN :
          LET new_root == HexDecode(root_hash[r])
              done == landed /\ UpdateRootResult(config, Backend) = "Ok"
          IN /\ config' = IF landed THEN UpdateRootConfig(config, Backend, new_root) ELSE config
             /\ superseded' = IF done /\ new_root # config.merkle_root
                              THEN config.merkle_root ELSE superseded
             /\ publish_res' = [publish_res EXCEPT ![r] =
                                  IF done /\ confirmed
                                  THEN [status |-> "ok", sig |-> <<r>>, landed |-> TRUE]
                                  ELSE [status |-> "err", sig |-> None, landed |-> done]]
    /\ pc' = [pc EXCEPT ![r] = "record"]
    /\ UNCHANGED <<subscriber_storage, merkle_state, clock, root_hash, tree,
                   subscriber_data, is_valid, is_valid_tamper, call>>

\* main.rs 76-95: update_merkle_state with Some(signature) after a successful
\* publish and with None after a failed one; its failure is returned from main
MainRecord(r) ==
    /\ pc[r] = "record"
    /\ \E db_ok \in BOOLEAN :
          /\ merkle_state' = IF db_ok
                             THEN InsertState(merkle_state, root_hash[r], publish_res[r].sig, clock)
                             ELSE merkle_state
          /\ pc' = [pc EXCEPT ![r] = IF db_ok THEN "selftest" ELSE "err_record"]
    /\ UNCHANGED <<subscriber_storage, config, clock, root_hash, tree, subscriber_data,
                   publish_res, is_valid, is_valid_tamper, superseded, call>>

\* main.rs 98-150: the proof of the first record, verified with its own expiration
\* and with fake_expiration
MainSelfTest(r) ==
    /\ pc[r] = "selftest"
    /\ IF subscriber_data[r] = <<>>
       THEN /\ pc' = [pc EXCEPT ![r] = "done"]
            /\ UNCHANGED <<is_valid, is_valid_tamper>>
       ELSE \E first \in {subscriber_data[r][1]} :
            \E p \in {GetProofForUser(tree[r], subscriber_data[r], first[1])} :
            \E v \in {VerifyOffChain(root_hash[r], p[1], first[1], first[2], p[2],
                                     Len(subscriber_data[r]))},
               t \in {VerifyOffChain(root_hash[r], p[1], first[1], FakeExpiration, p[2],
                                     Len(subscriber_data[r]))} :
              /\ is_valid' = [is_valid EXCEPT ![r] = v]
              /\ is_valid_tamper' = [is_valid_tamper EXCEPT ![r] =
                                        IF v = "err" THEN "none" ELSE t]
              /\ pc' = [pc EXCEPT ![r] = IF v = "err" \/ t = "err" THEN "err_selftest"
                                                                  ELSE "done"]
    /\ UNCHANGED <<subscriber_storage, merkle_state, config, clock, root_hash, tree,
                   subscriber_data, publish_res, superseded, call>>

\* time passes
Tick ==
    /\ clock < MaxClock
    /\ clock' = clock + 1
    /\ UNCHANGED <<subscriber_storage, merkle_state, config, pc, root_hash, tree,
                   subscriber_data, publish_res, is_valid, is_valid_tamper, superseded, call>>

Next ==
    \/ \E r \in Runs :
          \/ MainCheckConfig(r)
          \/ MainInitialize(r)
          \/ MainBuild(r)
          \/ MainPublish(r)
          \/ MainRecord(r)
          \/ MainSelfTest(r)
    \/ Tick

Spec == Init /\ [][Next]_vars

-----------------------------------------------------------------------------
(* Claims on the workflow, checked under Spec *)

\* main has returned or panicked
Terminal == {"done", "err_initialize", "err_build", "panic_build", "err_record", "err_selftest"}

\* the audit log holds a row for the root of run r that tells the outcome of its publish
RowFor(r) ==
    \E i \in 1..Len(merkle_state) :
        /\ merkle_state[i].root_hash = root_hash[r]
        /\ merkle_state[i].is_synced_on_chain = (publish_res[r].status = "ok")
        /\ merkle_state[i].tx_signature = publish_res[r].sig

C6_OnlyComputedRoots ==
    [][config'.merkle_root # config.merkle_root =>
         \E r \in Runs :
             /\ subscriber_data'[r] # <<>>
             /\ config'.merkle_root = HexDecode(root_hash'[r])]_vars

\* C7: a failure of a trust-anchor call never aborts the workflow. No run of main
\* ends by returning the error of a call to the trust anchor.
C7_AnchorFailureNeverAborts ==
    \A r \in Runs : pc[r] # "err_initialize"

\* the steps of main after a successful build
AfterBuild == {"publish", "record", "selftest", "done", "err_record", "err_selftest"}

\* C14: a build over zero records fails with an error and returns no root, and in
\* a run whose snapshot is empty main makes no update_merkle_root call: the run
\* never gets past the build, holds no root, has no publish result, and the root
\* of the config account is the one it had or the one of initialize_config.
C14_EmptyNeverPublished ==
    subscriber_storage = <<>> =>
        /\ BuildTree(subscriber_storage).status = "err"
        /\ BuildTree(subscriber_storage).root = None
        /\ \A r \in Runs :
              /\ pc[r] \notin AfterBuild
              /\ root_hash[r] = None
              /\ publish_res[r] = NoRes
        /\ merkle_state = <<>>
        /\ config.merkle_root \in {None, JunkHash, ZeroRoot}

\* a run over the empty store has called build_tree_from_db and got its error
C14_Witness ==
    /\ subscriber_storage = <<>>
    /\ config.exists
    /\ \E r \in Runs : pc[r] = "err_build"

\* the terminal states of the workflow for run r: its row is in the audit log,
\* synced with the receipt of its publish, or unsynced without receipt
Synced(r) ==
    /\ pc[r] \in {"selftest", "done", "err_selftest"}
    /\ \E i \in 1..Len(merkle_state) :
          /\ merkle_state[i].root_hash = root_hash[r]
          /\ merkle_state[i].is_synced_on_chain
          /\ merkle_state[i].tx_signature = <<r>>
Unsynced(r) ==
    /\ pc[r] \in {"selftest", "done", "err_selftest"}
    /\ publish_res[r].sig = None
    /\ \E i \in 1..Len(merkle_state) :
          /\ merkle_state[i].root_hash = root_hash[r]
          /\ ~merkle_state[i].is_synced_on_chain
          /\ merkle_state[i].tx_signature = None

\* in every row of the audit log the synced flag is true iff a receipt is present
FlagIffReceipt ==
    \A i \in 1..Len(merkle_state) :
        merkle_state[i].is_synced_on_chain <=> merkle_state[i].tx_signature # None

C16_UnsyncedNotAuthoritative ==
    \A r \in Runs : Unsynced(r) => ~publish_res[r].landed

-----------------------------------------------------------------------------
(* Specification SpecOverlap: several runs of main, interleaved in any way,
   against one store and one config account, while generate_and_store_keys adds
   subscribers to the store *)

OverlapRuns == 1..(NumRuns + 1)
ThirtyDays == 1                      \* 30 * 24 * 60 * 60 seconds, scaled to the clock

OverlapConfigs == {c \in InitialConfigs : c.exists => c.authority = Backend}

OverlapInit ==
    /\ subscriber_storage = <<<<1, 1 + ThirtyDays>>>>
    /\ merkle_state = <<>>
    /\ config \in OverlapConfigs
    /\ clock = 1
    /\ pc = [r \in OverlapRuns |-> "check_config"]
    /\ root_hash = [r \in OverlapRuns |-> None]
    /\ tree = [r \in OverlapRuns |-> <<>>]
    /\ subscriber_data = [r \in OverlapRuns |-> <<>>]
    /\ publish_res = [r \in OverlapRuns |-> NoRes]
    /\ is_valid = [r \in OverlapRuns |-> "none"]
    /\ is_valid_tamper = [r \in OverlapRuns |-> "none"]
    /\ superseded = None
    /\ call = NoCall

\* generator.rs: one round of the loop of generate_and_store_keys, which inserts a
\* new key (here the next unused wallet) expiring thirty days from now
generate_and_store_keys ==
    /\ Len(subscriber_storage) < MaxDbRows
    /\ subscriber_storage' = Append(subscriber_storage,
                                    <<Len(subscriber_storage) + 1, clock + ThirtyDays>>)
    /\ UNCHANGED <<merkle_state, config, clock, pc, root_hash, tree, subscriber_data,
                   publish_res, is_valid, is_valid_tamper, superseded, call>>

OverlapNext ==
    \/ \E r \in OverlapRuns :
          \/ MainCheckConfig(r)
          \/ MainInitialize(r)
          \/ MainBuild(r)
          \/ MainPublish(r)
          \/ MainRecord(r)
          \/ MainSelfTest(r)
    \/ generate_and_store_keys

SpecOverlap == OverlapInit /\ [][OverlapNext]_vars

\* the rows of the audit log marked synced, by index
SyncedRows == {i \in 1..Len(merkle_state) : merkle_state[i].is_synced_on_chain}
LastSynced == CHOOSE i \in SyncedRows : \A j \in SyncedRows : j <= i

====
